---- MODULE Spec2Model ----
(***************************************************************************)
(* Model of app/models.py: the SQLModel schema of the portfolio tracker.   *)
(*                                                                         *)
(* The module declares nine persistent entities (table=True) and thirteen  *)
(* non-persistent shapes (table=False).  Every class is transcribed field  *)
(* by field: its type, whether it is Optional, whether it has a default,   *)
(* and the Field(...) keywords max_length, decimal_places, regex, unique,  *)
(* index, primary_key and foreign_key.  Relationship(...) attributes are   *)
(* not columns and carry no value of their own; they are left out.         *)
(*                                                                         *)
(* Construction follows SQLModel: a table=False class validates its input  *)
(* (required fields, Optional, max_length, decimal_places, enum members),  *)
(* a table=True class is built without validation and keeps what it is    *)
(* given.  The storage layer (unique, foreign key, NOT NULL) and the       *)
(* partial-update merge are not part of models.py; Accepts, InsertInto,    *)
(* Merge and Update model them as the specification describes them,        *)
(* driven by the declarations.                                             *)
(***************************************************************************)
EXTENDS Integers, Sequences, FiniteSets, TLC

VARIABLES db, last

vars == <<db, last>>

(***************************************************************************)
(* Bounds of the model.                                                    *)
(***************************************************************************)
\* how many fields of a sample input one constructor call changes
MaxPerturb == 2
\* how many rows the whole database holds
MaxTotalRows == 5

(***************************************************************************)
(* Values.  Every value carries its Python type; None is its own value and *)
(* Unset is an attribute that was never assigned.                          *)
(***************************************************************************)
None == [t |-> "none"]
Unset == [t |-> "unset"]
S(chars) == [t |-> "str", v |-> chars]
N(i) == [t |-> "int", v |-> i]
B(b) == [t |-> "bool", v |-> b]
\* Decimal: coefficient and number of decimal places, Decimal("1.25") = D(125, 2)
D(coef, places) == [t |-> "decimal", coef |-> coef, places |-> places]
T(when) == [t |-> "datetime", v |-> when]
E(member) == [t |-> "enum", v |-> member]
L(items) == [t |-> "list", v |-> items]
\* datetime.utcnow, the default_factory of every timestamp
UtcNow == T("utcnow")

\* a string of n characters
Long(n) == [i \in 1..n |-> "x"]

AlertType_PRICE_ABOVE == "price_above"
AlertType_PRICE_BELOW == "price_below"
AlertType_PERCENT_CHANGE == "percent_change"
AlertType == {AlertType_PRICE_ABOVE, AlertType_PRICE_BELOW, AlertType_PERCENT_CHANGE}

AlertStatus_ACTIVE == "active"
AlertStatus_TRIGGERED == "triggered"
AlertStatus_DISABLED == "disabled"
\* AlertStatus with a fourth member
AlertStatus_WithExpired ==
  {AlertStatus_ACTIVE, AlertStatus_TRIGGERED, AlertStatus_DISABLED, "expired"}
AlertStatus == {AlertStatus_ACTIVE, AlertStatus_TRIGGERED, AlertStatus_DISABLED}

(***************************************************************************)
(* The email pattern ^[a-zA-Z0-9_.+-]+@[a-zA-Z0-9-]+\.[a-zA-Z0-9-.]+$ as   *)
(* its three character classes, over the characters the model draws from.  *)
(***************************************************************************)
Alnum == {"a", "b", "Z", "0", "9", "x"}
EmailPattern ==
  [local  |-> Alnum \cup {"_", ".", "+", "-"},
   domain |-> Alnum \cup {"-"},
   tail   |-> Alnum \cup {"-", "."}]

\* re.match of the pattern on the whole string: local@domain.tail, each part
\* non-empty, the first "." after "@" ending the domain part
Matches(p, s) ==
  \E i \in 1..Len(s) : \E j \in 1..Len(s) :
    /\ 1 < i /\ i + 1 < j /\ j < Len(s)
    /\ s[i] = "@" /\ s[j] = "."
    /\ \A k \in 1..(i - 1) : s[k] \in p.local
    /\ \A k \in (i + 1)..(j - 1) : s[k] \in p.domain
    /\ \A k \in (j + 1)..Len(s) : s[k] \in p.tail

(***************************************************************************)
(* The classes of models.py.                                               *)
(***************************************************************************)
UserFields ==
  [id         |-> [kind |-> "int", nullable |-> TRUE, req |-> FALSE, dflt |-> None, pk |-> TRUE],
   username   |-> [kind |-> "str", nullable |-> FALSE, req |-> TRUE, maxlen |-> 50, unique |-> TRUE],
   email      |-> [kind |-> "str", nullable |-> FALSE, req |-> TRUE, unique |-> TRUE, maxlen |-> 255, regex |-> EmailPattern],
   full_name  |-> [kind |-> "str", nullable |-> FALSE, req |-> TRUE, maxlen |-> 100],
   is_active  |-> [kind |-> "bool", nullable |-> FALSE, req |-> FALSE, dflt |-> B(TRUE)],
   created_at |-> [kind |-> "datetime", nullable |-> FALSE, req |-> FALSE, dflt |-> UtcNow],
   updated_at |-> [kind |-> "datetime", nullable |-> FALSE, req |-> FALSE, dflt |-> UtcNow]]

\* User with email declared without unique=True
User_EmailNotUnique ==
  [name |-> "User", table |-> TRUE, tablename |-> "users",
   decl |-> [UserFields EXCEPT !.email =
               [kind |-> "str", nullable |-> FALSE, req |-> TRUE, maxlen |-> 255, regex |-> EmailPattern]]]

\* src/app/models.py:21  class User
User ==
  [name |-> "User", table |-> TRUE, decl |-> UserFields, tablename |-> "users"]

StockFields ==
  [id                  |-> [kind |-> "int", nullable |-> TRUE, req |-> FALSE, dflt |-> None, pk |-> TRUE],
   symbol              |-> [kind |-> "str", nullable |-> FALSE, req |-> TRUE, maxlen |-> 10, unique |-> TRUE, index |-> TRUE],
   name                |-> [kind |-> "str", nullable |-> FALSE, req |-> TRUE, maxlen |-> 200],
   exchange            |-> [kind |-> "str", nullable |-> FALSE, req |-> TRUE, maxlen |-> 50],
   sector              |-> [kind |-> "str", nullable |-> FALSE, req |-> FALSE, dflt |-> S(<<>>), maxlen |-> 100],
   industry            |-> [kind |-> "str", nullable |-> FALSE, req |-> FALSE, dflt |-> S(<<>>), maxlen |-> 100],
   market_cap          |-> [kind |-> "decimal", nullable |-> TRUE, req |-> FALSE, dflt |-> None, dp |-> 2],
   current_price       |-> [kind |-> "decimal", nullable |-> FALSE, req |-> FALSE, dflt |-> D(0, 0), dp |-> 4],
   previous_close      |-> [kind |-> "decimal", nullable |-> FALSE, req |-> FALSE, dflt |-> D(0, 0), dp |-> 4],
   day_change          |-> [kind |-> "decimal", nullable |-> FALSE, req |-> FALSE, dflt |-> D(0, 0), dp |-> 4],
   day_change_percent  |-> [kind |-> "decimal", nullable |-> FALSE, req |-> FALSE, dflt |-> D(0, 0), dp |-> 4],
   volume              |-> [kind |-> "int", nullable |-> FALSE, req |-> FALSE, dflt |-> N(0)],
   avg_volume          |-> [kind |-> "int", nullable |-> FALSE, req |-> FALSE, dflt |-> N(0)],
   pe_ratio            |-> [kind |-> "decimal", nullable |-> TRUE, req |-> FALSE, dflt |-> None, dp |-> 2],
   dividend_yield      |-> [kind |-> "decimal", nullable |-> TRUE, req |-> FALSE, dflt |-> None, dp |-> 4],
   fifty_two_week_high |-> [kind |-> "decimal", nullable |-> TRUE, req |-> FALSE, dflt |-> None, dp |-> 4],
   fifty_two_week_low  |-> [kind |-> "decimal", nullable |-> TRUE, req |-> FALSE, dflt |-> None, dp |-> 4],
   last_updated        |-> [kind |-> "datetime", nullable |-> FALSE, req |-> FALSE, dflt |-> UtcNow],
   created_at          |-> [kind |-> "datetime", nullable |-> FALSE, req |-> FALSE, dflt |-> UtcNow]]

\* src/app/models.py:37  class Stock
Stock ==
  [name |-> "Stock", table |-> TRUE, decl |-> StockFields, tablename |-> "stocks"]

PortfolioFields ==
  [id                      |-> [kind |-> "int", nullable |-> TRUE, req |-> FALSE, dflt |-> None, pk |-> TRUE],
   name                    |-> [kind |-> "str", nullable |-> FALSE, req |-> TRUE, maxlen |-> 100],
   description             |-> [kind |-> "str", nullable |-> FALSE, req |-> FALSE, dflt |-> S(<<>>), maxlen |-> 500],
   user_id                 |-> [kind |-> "int", nullable |-> FALSE, req |-> TRUE, fk |-> "users"],
   total_value             |-> [kind |-> "decimal", nullable |-> FALSE, req |-> FALSE, dflt |-> D(0, 0), dp |-> 2],
   total_cost              |-> [kind |-> "decimal", nullable |-> FALSE, req |-> FALSE, dflt |-> D(0, 0), dp |-> 2],
   total_gain_loss         |-> [kind |-> "decimal", nullable |-> FALSE, req |-> FALSE, dflt |-> D(0, 0), dp |-> 2],
   total_gain_loss_percent |-> [kind |-> "decimal", nullable |-> FALSE, req |-> FALSE, dflt |-> D(0, 0), dp |-> 4],
   is_default              |-> [kind |-> "bool", nullable |-> FALSE, req |-> FALSE, dflt |-> B(FALSE)],
   created_at              |-> [kind |-> "datetime", nullable |-> FALSE, req |-> FALSE, dflt |-> UtcNow],
   updated_at              |-> [kind |-> "datetime", nullable |-> FALSE, req |-> FALSE, dflt |-> UtcNow]]

\* Portfolio with user_id declared without foreign_key
Portfolio_NoForeignKey ==
  [name |-> "Portfolio", table |-> TRUE, tablename |-> "portfolios",
   decl |-> [PortfolioFields EXCEPT !.user_id =
               [kind |-> "int", nullable |-> FALSE, req |-> TRUE]]]

\* src/app/models.py:66  class Portfolio
Portfolio ==
  [name |-> "Portfolio", table |-> TRUE, decl |-> PortfolioFields, tablename |-> "portfolios"]

PortfolioHoldingFields ==
  [id                |-> [kind |-> "int", nullable |-> TRUE, req |-> FALSE, dflt |-> None, pk |-> TRUE],
   portfolio_id      |-> [kind |-> "int", nullable |-> FALSE, req |-> TRUE, fk |-> "portfolios"],
   stock_id          |-> [kind |-> "int", nullable |-> FALSE, req |-> TRUE, fk |-> "stocks"],
   quantity          |-> [kind |-> "decimal", nullable |-> FALSE, req |-> FALSE, dflt |-> D(0, 0), dp |-> 8],
   average_cost      |-> [kind |-> "decimal", nullable |-> FALSE, req |-> FALSE, dflt |-> D(0, 0), dp |-> 4],
   total_cost        |-> [kind |-> "decimal", nullable |-> FALSE, req |-> FALSE, dflt |-> D(0, 0), dp |-> 2],
   current_value     |-> [kind |-> "decimal", nullable |-> FALSE, req |-> FALSE, dflt |-> D(0, 0), dp |-> 2],
   gain_loss         |-> [kind |-> "decimal", nullable |-> FALSE, req |-> FALSE, dflt |-> D(0, 0), dp |-> 2],
   gain_loss_percent |-> [kind |-> "decimal", nullable |-> FALSE, req |-> FALSE, dflt |-> D(0, 0), dp |-> 4],
   created_at        |-> [kind |-> "datetime", nullable |-> FALSE, req |-> FALSE, dflt |-> UtcNow],
   updated_at        |-> [kind |-> "datetime", nullable |-> FALSE, req |-> FALSE, dflt |-> UtcNow]]

\* src/app/models.py:86  class PortfolioHolding
PortfolioHolding ==
  [name |-> "PortfolioHolding", table |-> TRUE, decl |-> PortfolioHoldingFields, tablename |-> "portfolio_holdings"]

TransactionFields ==
  [id               |-> [kind |-> "int", nullable |-> TRUE, req |-> FALSE, dflt |-> None, pk |-> TRUE],
   holding_id       |-> [kind |-> "int", nullable |-> FALSE, req |-> TRUE, fk |-> "portfolio_holdings"],
   transaction_type |-> [kind |-> "str", nullable |-> FALSE, req |-> TRUE, maxlen |-> 10],
   quantity         |-> [kind |-> "decimal", nullable |-> FALSE, req |-> TRUE, dp |-> 8],
   price            |-> [kind |-> "decimal", nullable |-> FALSE, req |-> TRUE, dp |-> 4],
   total_amount     |-> [kind |-> "decimal", nullable |-> FALSE, req |-> TRUE, dp |-> 2],
   fees             |-> [kind |-> "decimal", nullable |-> FALSE, req |-> FALSE, dflt |-> D(0, 0), dp |-> 2],
   notes            |-> [kind |-> "str", nullable |-> FALSE, req |-> FALSE, dflt |-> S(<<>>), maxlen |-> 500],
   transaction_date |-> [kind |-> "datetime", nullable |-> FALSE, req |-> FALSE, dflt |-> UtcNow],
   created_at       |-> [kind |-> "datetime", nullable |-> FALSE, req |-> FALSE, dflt |-> UtcNow]]

\* src/app/models.py:107  class Transaction
Transaction ==
  [name |-> "Transaction", table |-> TRUE, decl |-> TransactionFields, tablename |-> "transactions"]

StockPriceHistoryFields ==
  [id             |-> [kind |-> "int", nullable |-> TRUE, req |-> FALSE, dflt |-> None, pk |-> TRUE],
   stock_id       |-> [kind |-> "int", nullable |-> FALSE, req |-> TRUE, fk |-> "stocks"],
   date           |-> [kind |-> "datetime", nullable |-> FALSE, req |-> TRUE, index |-> TRUE],
   open_price     |-> [kind |-> "decimal", nullable |-> FALSE, req |-> TRUE, dp |-> 4],
   high_price     |-> [kind |-> "decimal", nullable |-> FALSE, req |-> TRUE, dp |-> 4],
   low_price      |-> [kind |-> "decimal", nullable |-> FALSE, req |-> TRUE, dp |-> 4],
   close_price    |-> [kind |-> "decimal", nullable |-> FALSE, req |-> TRUE, dp |-> 4],
   volume         |-> [kind |-> "int", nullable |-> FALSE, req |-> FALSE, dflt |-> N(0)],
   adjusted_close |-> [kind |-> "decimal", nullable |-> TRUE, req |-> FALSE, dflt |-> None, dp |-> 4],
   created_at     |-> [kind |-> "datetime", nullable |-> FALSE, req |-> FALSE, dflt |-> UtcNow]]

\* src/app/models.py:125  class StockPriceHistory
StockPriceHistory ==
  [name |-> "StockPriceHistory", table |-> TRUE, decl |-> StockPriceHistoryFields, tablename |-> "stock_price_history"]

PriceAlertFields ==
  [id                |-> [kind |-> "int", nullable |-> TRUE, req |-> FALSE, dflt |-> None, pk |-> TRUE],
   user_id           |-> [kind |-> "int", nullable |-> FALSE, req |-> TRUE, fk |-> "users"],
   stock_id          |-> [kind |-> "int", nullable |-> FALSE, req |-> TRUE, fk |-> "stocks"],
   alert_type        |-> [kind |-> "enum", nullable |-> FALSE, enum |-> AlertType, req |-> FALSE, dflt |-> E(AlertType_PRICE_ABOVE)],
   target_price      |-> [kind |-> "decimal", nullable |-> TRUE, req |-> FALSE, dflt |-> None, dp |-> 4],
   target_percentage |-> [kind |-> "decimal", nullable |-> TRUE, req |-> FALSE, dflt |-> None, dp |-> 2],
   status            |-> [kind |-> "enum", nullable |-> FALSE, enum |-> AlertStatus, req |-> FALSE, dflt |-> E(AlertStatus_ACTIVE)],
   message           |-> [kind |-> "str", nullable |-> FALSE, req |-> FALSE, dflt |-> S(<<>>), maxlen |-> 500],
   triggered_at      |-> [kind |-> "datetime", nullable |-> TRUE, req |-> FALSE, dflt |-> None],
   triggered_price   |-> [kind |-> "decimal", nullable |-> TRUE, req |-> FALSE, dflt |-> None, dp |-> 4],
   created_at        |-> [kind |-> "datetime", nullable |-> FALSE, req |-> FALSE, dflt |-> UtcNow],
   updated_at        |-> [kind |-> "datetime", nullable |-> FALSE, req |-> FALSE, dflt |-> UtcNow]]

\* PriceAlert with status defaulting to TRIGGERED
PriceAlert_DefaultTriggered ==
  [name |-> "PriceAlert", table |-> TRUE, tablename |-> "price_alerts",
   decl |-> [PriceAlertFields EXCEPT !.status.dflt = E(AlertStatus_TRIGGERED)]]

\* src/app/models.py:143  class PriceAlert
PriceAlert ==
  [name |-> "PriceAlert", table |-> TRUE, decl |-> PriceAlertFields, tablename |-> "price_alerts"]

WatchListFields ==
  [id            |-> [kind |-> "int", nullable |-> TRUE, req |-> FALSE, dflt |-> None, pk |-> TRUE],
   user_id       |-> [kind |-> "int", nullable |-> FALSE, req |-> TRUE, fk |-> "users"],
   name          |-> [kind |-> "str", nullable |-> FALSE, req |-> TRUE, maxlen |-> 100],
   description   |-> [kind |-> "str", nullable |-> FALSE, req |-> FALSE, dflt |-> S(<<>>), maxlen |-> 500],
   stock_symbols |-> [kind |-> "list", nullable |-> FALSE, req |-> FALSE, dflt |-> L(<<>>), json |-> TRUE],
   is_default    |-> [kind |-> "bool", nullable |-> FALSE, req |-> FALSE, dflt |-> B(FALSE)],
   created_at    |-> [kind |-> "datetime", nullable |-> FALSE, req |-> FALSE, dflt |-> UtcNow],
   updated_at    |-> [kind |-> "datetime", nullable |-> FALSE, req |-> FALSE, dflt |-> UtcNow]]

\* src/app/models.py:164  class WatchList
WatchList ==
  [name |-> "WatchList", table |-> TRUE, decl |-> WatchListFields, tablename |-> "watch_lists"]

MarketIndexFields ==
  [id                 |-> [kind |-> "int", nullable |-> TRUE, req |-> FALSE, dflt |-> None, pk |-> TRUE],
   symbol             |-> [kind |-> "str", nullable |-> FALSE, req |-> TRUE, maxlen |-> 10, unique |-> TRUE],
   name               |-> [kind |-> "str", nullable |-> FALSE, req |-> TRUE, maxlen |-> 100],
   current_value      |-> [kind |-> "decimal", nullable |-> FALSE, req |-> FALSE, dflt |-> D(0, 0), dp |-> 4],
   previous_close     |-> [kind |-> "decimal", nullable |-> FALSE, req |-> FALSE, dflt |-> D(0, 0), dp |-> 4],
   day_change         |-> [kind |-> "decimal", nullable |-> FALSE, req |-> FALSE, dflt |-> D(0, 0), dp |-> 4],
   day_change_percent |-> [kind |-> "decimal", nullable |-> FALSE, req |-> FALSE, dflt |-> D(0, 0), dp |-> 4],
   last_updated       |-> [kind |-> "datetime", nullable |-> FALSE, req |-> FALSE, dflt |-> UtcNow],
   created_at         |-> [kind |-> "datetime", nullable |-> FALSE, req |-> FALSE, dflt |-> UtcNow]]

\* src/app/models.py:177  class MarketIndex
MarketIndex ==
  [name |-> "MarketIndex", table |-> TRUE, decl |-> MarketIndexFields, tablename |-> "market_indices"]

UserCreateFields ==
  [username  |-> [kind |-> "str", nullable |-> FALSE, req |-> TRUE, maxlen |-> 50],
   email     |-> [kind |-> "str", nullable |-> FALSE, req |-> TRUE, maxlen |-> 255],
   full_name |-> [kind |-> "str", nullable |-> FALSE, req |-> TRUE, maxlen |-> 100]]

\* UserCreate declared with table=True
UserCreate_AsTable ==
  [name |-> "UserCreate", table |-> TRUE, tablename |-> "usercreate", decl |-> UserCreateFields]

\* src/app/models.py:192  class UserCreate
UserCreate ==
  [name |-> "UserCreate", table |-> FALSE, decl |-> UserCreateFields]

UserUpdateFields ==
  [username  |-> [kind |-> "str", nullable |-> TRUE, req |-> FALSE, dflt |-> None, maxlen |-> 50],
   email     |-> [kind |-> "str", nullable |-> TRUE, req |-> FALSE, dflt |-> None, maxlen |-> 255],
   full_name |-> [kind |-> "str", nullable |-> TRUE, req |-> FALSE, dflt |-> None, maxlen |-> 100],
   is_active |-> [kind |-> "bool", nullable |-> TRUE, req |-> FALSE, dflt |-> None]]

\* UserUpdate with username defaulting to "" instead of None
UserUpdate_EmptyStringDefault ==
  [name |-> "UserUpdate", table |-> FALSE,
   decl |-> [UserUpdateFields EXCEPT !.username.dflt = S(<<>>)]]

\* src/app/models.py:198  class UserUpdate
UserUpdate ==
  [name |-> "UserUpdate", table |-> FALSE, decl |-> UserUpdateFields]

StockCreateFields ==
  [symbol   |-> [kind |-> "str", nullable |-> FALSE, req |-> TRUE, maxlen |-> 10],
   name     |-> [kind |-> "str", nullable |-> FALSE, req |-> TRUE, maxlen |-> 200],
   exchange |-> [kind |-> "str", nullable |-> FALSE, req |-> TRUE, maxlen |-> 50],
   sector   |-> [kind |-> "str", nullable |-> FALSE, req |-> FALSE, dflt |-> S(<<>>), maxlen |-> 100],
   industry |-> [kind |-> "str", nullable |-> FALSE, req |-> FALSE, dflt |-> S(<<>>), maxlen |-> 100]]

\* src/app/models.py:205  class StockCreate
StockCreate ==
  [name |-> "StockCreate", table |-> FALSE, decl |-> StockCreateFields]

StockUpdateFields ==
  [name          |-> [kind |-> "str", nullable |-> TRUE, req |-> FALSE, dflt |-> None, maxlen |-> 200],
   sector        |-> [kind |-> "str", nullable |-> TRUE, req |-> FALSE, dflt |-> None, maxlen |-> 100],
   industry      |-> [kind |-> "str", nullable |-> TRUE, req |-> FALSE, dflt |-> None, maxlen |-> 100],
   current_price |-> [kind |-> "decimal", nullable |-> TRUE, req |-> FALSE, dflt |-> None, dp |-> 4],
   market_cap    |-> [kind |-> "decimal", nullable |-> TRUE, req |-> FALSE, dflt |-> None, dp |-> 2]]

\* src/app/models.py:213  class StockUpdate
StockUpdate ==
  [name |-> "StockUpdate", table |-> FALSE, decl |-> StockUpdateFields]

PortfolioCreateFields ==
  [name        |-> [kind |-> "str", nullable |-> FALSE, req |-> TRUE, maxlen |-> 100],
   description |-> [kind |-> "str", nullable |-> FALSE, req |-> FALSE, dflt |-> S(<<>>), maxlen |-> 500],
   user_id     |-> [kind |-> "int", nullable |-> FALSE, req |-> TRUE],
   is_default  |-> [kind |-> "bool", nullable |-> FALSE, req |-> FALSE, dflt |-> B(FALSE)]]

\* src/app/models.py:221  class PortfolioCreate
PortfolioCreate ==
  [name |-> "PortfolioCreate", table |-> FALSE, decl |-> PortfolioCreateFields]

PortfolioUpdateFields ==
  [name        |-> [kind |-> "str", nullable |-> TRUE, req |-> FALSE, dflt |-> None, maxlen |-> 100],
   description |-> [kind |-> "str", nullable |-> TRUE, req |-> FALSE, dflt |-> None, maxlen |-> 500],
   is_default  |-> [kind |-> "bool", nullable |-> TRUE, req |-> FALSE, dflt |-> None]]

\* src/app/models.py:228  class PortfolioUpdate
PortfolioUpdate ==
  [name |-> "PortfolioUpdate", table |-> FALSE, decl |-> PortfolioUpdateFields]

TransactionCreateFields ==
  [holding_id       |-> [kind |-> "int", nullable |-> FALSE, req |-> TRUE],
   transaction_type |-> [kind |-> "str", nullable |-> FALSE, req |-> TRUE, maxlen |-> 10],
   quantity         |-> [kind |-> "decimal", nullable |-> FALSE, req |-> TRUE, dp |-> 8],
   price            |-> [kind |-> "decimal", nullable |-> FALSE, req |-> TRUE, dp |-> 4],
   fees             |-> [kind |-> "decimal", nullable |-> FALSE, req |-> FALSE, dflt |-> D(0, 0), dp |-> 2],
   notes            |-> [kind |-> "str", nullable |-> FALSE, req |-> FALSE, dflt |-> S(<<>>), maxlen |-> 500],
   transaction_date |-> [kind |-> "datetime", nullable |-> TRUE, req |-> FALSE, dflt |-> None]]

\* TransactionCreate declared with table=True
TransactionCreate_AsTable ==
  [name |-> "TransactionCreate", table |-> TRUE, tablename |-> "transactioncreate",
   decl |-> TransactionCreateFields]

\* src/app/models.py:234  class TransactionCreate
TransactionCreate ==
  [name |-> "TransactionCreate", table |-> FALSE, decl |-> TransactionCreateFields]

PriceAlertCreateFields ==
  [user_id           |-> [kind |-> "int", nullable |-> FALSE, req |-> TRUE],
   stock_id          |-> [kind |-> "int", nullable |-> FALSE, req |-> TRUE],
   alert_type        |-> [kind |-> "enum", nullable |-> FALSE, enum |-> AlertType, req |-> FALSE, dflt |-> E(AlertType_PRICE_ABOVE)],
   target_price      |-> [kind |-> "decimal", nullable |-> TRUE, req |-> FALSE, dflt |-> None, dp |-> 4],
   target_percentage |-> [kind |-> "decimal", nullable |-> TRUE, req |-> FALSE, dflt |-> None, dp |-> 2],
   message           |-> [kind |-> "str", nullable |-> FALSE, req |-> FALSE, dflt |-> S(<<>>), maxlen |-> 500]]

\* src/app/models.py:244  class PriceAlertCreate
PriceAlertCreate ==
  [name |-> "PriceAlertCreate", table |-> FALSE, decl |-> PriceAlertCreateFields]

PriceAlertUpdateFields ==
  [alert_type        |-> [kind |-> "enum", nullable |-> TRUE, enum |-> AlertType, req |-> FALSE, dflt |-> None],
   target_price      |-> [kind |-> "decimal", nullable |-> TRUE, req |-> FALSE, dflt |-> None, dp |-> 4],
   target_percentage |-> [kind |-> "decimal", nullable |-> TRUE, req |-> FALSE, dflt |-> None, dp |-> 2],
   status            |-> [kind |-> "enum", nullable |-> TRUE, enum |-> AlertStatus, req |-> FALSE, dflt |-> None],
   message           |-> [kind |-> "str", nullable |-> TRUE, req |-> FALSE, dflt |-> None, maxlen |-> 500]]

\* src/app/models.py:253  class PriceAlertUpdate
PriceAlertUpdate ==
  [name |-> "PriceAlertUpdate", table |-> FALSE, decl |-> PriceAlertUpdateFields]

WatchListCreateFields ==
  [user_id       |-> [kind |-> "int", nullable |-> FALSE, req |-> TRUE],
   name          |-> [kind |-> "str", nullable |-> FALSE, req |-> TRUE, maxlen |-> 100],
   description   |-> [kind |-> "str", nullable |-> FALSE, req |-> FALSE, dflt |-> S(<<>>), maxlen |-> 500],
   stock_symbols |-> [kind |-> "list", nullable |-> FALSE, req |-> FALSE, dflt |-> L(<<>>)],
   is_default    |-> [kind |-> "bool", nullable |-> FALSE, req |-> FALSE, dflt |-> B(FALSE)]]

\* src/app/models.py:261  class WatchListCreate
WatchListCreate ==
  [name |-> "WatchListCreate", table |-> FALSE, decl |-> WatchListCreateFields]

WatchListUpdateFields ==
  [name          |-> [kind |-> "str", nullable |-> TRUE, req |-> FALSE, dflt |-> None, maxlen |-> 100],
   description   |-> [kind |-> "str", nullable |-> TRUE, req |-> FALSE, dflt |-> None, maxlen |-> 500],
   stock_symbols |-> [kind |-> "list", nullable |-> TRUE, req |-> FALSE, dflt |-> None],
   is_default    |-> [kind |-> "bool", nullable |-> TRUE, req |-> FALSE, dflt |-> None]]

\* src/app/models.py:269  class WatchListUpdate
WatchListUpdate ==
  [name |-> "WatchListUpdate", table |-> FALSE, decl |-> WatchListUpdateFields]

StockPriceHistoryCreateFields ==
  [stock_id       |-> [kind |-> "int", nullable |-> FALSE, req |-> TRUE],
   date           |-> [kind |-> "datetime", nullable |-> FALSE, req |-> TRUE],
   open_price     |-> [kind |-> "decimal", nullable |-> FALSE, req |-> TRUE, dp |-> 4],
   high_price     |-> [kind |-> "decimal", nullable |-> FALSE, req |-> TRUE, dp |-> 4],
   low_price      |-> [kind |-> "decimal", nullable |-> FALSE, req |-> TRUE, dp |-> 4],
   close_price    |-> [kind |-> "decimal", nullable |-> FALSE, req |-> TRUE, dp |-> 4],
   volume         |-> [kind |-> "int", nullable |-> FALSE, req |-> FALSE, dflt |-> N(0)],
   adjusted_close |-> [kind |-> "decimal", nullable |-> TRUE, req |-> FALSE, dflt |-> None, dp |-> 4]]

\* src/app/models.py:276  class StockPriceHistoryCreate
StockPriceHistoryCreate ==
  [name |-> "StockPriceHistoryCreate", table |-> FALSE, decl |-> StockPriceHistoryCreateFields]

PortfolioSummaryFields ==
  [portfolio_id            |-> [kind |-> "int", nullable |-> FALSE, req |-> TRUE],
   portfolio_name          |-> [kind |-> "str", nullable |-> FALSE, req |-> TRUE],
   total_value             |-> [kind |-> "decimal", nullable |-> FALSE, req |-> TRUE],
   total_cost              |-> [kind |-> "decimal", nullable |-> FALSE, req |-> TRUE],
   total_gain_loss         |-> [kind |-> "decimal", nullable |-> FALSE, req |-> TRUE],
   total_gain_loss_percent |-> [kind |-> "decimal", nullable |-> FALSE, req |-> TRUE],
   holdings_count          |-> [kind |-> "int", nullable |-> FALSE, req |-> TRUE],
   top_performers          |-> [kind |-> "list", nullable |-> FALSE, req |-> FALSE, dflt |-> L(<<>>)],
   worst_performers        |-> [kind |-> "list", nullable |-> FALSE, req |-> FALSE, dflt |-> L(<<>>)]]

\* src/app/models.py:287  class PortfolioSummary
PortfolioSummary ==
  [name |-> "PortfolioSummary", table |-> FALSE, decl |-> PortfolioSummaryFields]

StockQuoteFields ==
  [symbol             |-> [kind |-> "str", nullable |-> FALSE, req |-> TRUE],
   name               |-> [kind |-> "str", nullable |-> FALSE, req |-> TRUE],
   current_price      |-> [kind |-> "decimal", nullable |-> FALSE, req |-> TRUE],
   day_change         |-> [kind |-> "decimal", nullable |-> FALSE, req |-> TRUE],
   day_change_percent |-> [kind |-> "decimal", nullable |-> FALSE, req |-> TRUE],
   volume             |-> [kind |-> "int", nullable |-> FALSE, req |-> TRUE],
   market_cap         |-> [kind |-> "decimal", nullable |-> TRUE, req |-> FALSE, dflt |-> None],
   pe_ratio           |-> [kind |-> "decimal", nullable |-> TRUE, req |-> FALSE, dflt |-> None],
   last_updated       |-> [kind |-> "datetime", nullable |-> FALSE, req |-> TRUE]]

\* src/app/models.py:299  class StockQuote
StockQuote ==
  [name |-> "StockQuote", table |-> FALSE, decl |-> StockQuoteFields]

Shapes ==
  {User, Stock, Portfolio, PortfolioHolding, Transaction, StockPriceHistory,
   PriceAlert, WatchList, MarketIndex,
   UserCreate, UserUpdate, StockCreate, StockUpdate, PortfolioCreate,
   PortfolioUpdate, TransactionCreate, PriceAlertCreate, PriceAlertUpdate,
   WatchListCreate, WatchListUpdate, StockPriceHistoryCreate,
   PortfolioSummary, StockQuote}

(***************************************************************************)
(* Construction of an instance from keyword arguments g (field -> value).  *)
(***************************************************************************)
\* one value against one field declaration
ValidValue(d, v) ==
  IF v = None THEN d.nullable
  ELSE /\ v.t = d.kind
       /\ ("maxlen" \in DOMAIN d => Len(v.v) <= d.maxlen)
       /\ ("regex" \in DOMAIN d => Matches(d.regex, v.v))
       /\ ("dp" \in DOMAIN d => v.places <= d.dp)
       /\ (d.kind = "enum" => v.v \in d.enum)

\* the fields declared without a default
Required(s) == {f \in DOMAIN s.decl : s.decl[f].req}

Missing(s, g) == Required(s) \ DOMAIN g

Invalid(s, g) == {f \in DOMAIN g : ~ValidValue(s.decl[f], g[f])}

ValidationError == [t |-> "ValidationError"]

\* the instance: what was given, the declared default otherwise
Build(s, g) ==
  [f \in DOMAIN s.decl |->
     IF f \in DOMAIN g THEN g[f]
     ELSE IF s.decl[f].req THEN Unset ELSE s.decl[f].dflt]

\* table=False classes validate at construction, table=True classes do not
Validates(s) == ~s.table

Construct(s, g) ==
  IF Validates(s) /\ (Missing(s, g) \cup Invalid(s, g)) # {}
  THEN ValidationError
  ELSE Build(s, g)

\* A table=True class raises nothing; what becomes of an argument that would
\* not validate depends on the SQLModel release: it is kept as given, or it is
\* dropped and the attribute stays unassigned.
Dropped(s, g) ==
  [f \in DOMAIN s.decl |-> IF f \in Invalid(s, g) THEN Unset ELSE Build(s, g)[f]]

Outcomes(s, g) ==
  IF Validates(s) THEN {Construct(s, g)} ELSE {Build(s, g), Dropped(s, g)}

(***************************************************************************)
(* Inputs: a valid sample of each class, changed in at most MaxPerturb     *)
(* fields (a field left out, or given one of its probe values).            *)
(***************************************************************************)
GoodEmail == <<"a", "@", "b", ".", "a">>
OtherEmail == <<"b", "@", "b", ".", "a">>
EmailSamples ==
  {GoodEmail, OtherEmail,
   <<"a", ".", "b", "+", "0", "@", "a", "-", "b", ".", "a", ".", "Z">>,
   <<"a", "b">>,
   <<"a", "@", "b">>,
   <<"@", "b", ".", "a">>,
   <<"a", "@", ".", "a">>,
   <<"a", "@", "b", ".">>,
   <<"a", " ", "@", "b", ".", "a">>,
   <<"a", "@", "b", "_", ".", "a">>}

BUY == <<"B", "U", "Y">>
SELL == <<"S", "E", "L", "L">>
HOLD == <<"H", "O", "L", "D">>

SampleValue(f, d) ==
  CASE f = "email" -> S(GoodEmail)
    [] f = "transaction_type" -> S(BUY)
    [] f # "email" /\ f # "transaction_type" /\ d.kind = "str" -> S(<<"a">>)
    [] d.kind = "int" -> N(1)
    [] d.kind = "bool" -> B(TRUE)
    [] d.kind = "decimal" -> D(15000, 2)
    [] d.kind = "datetime" -> T("t1")
    [] d.kind = "enum" -> E(CHOOSE m \in d.enum : TRUE)
    [] d.kind = "list" -> L(<<>>)

Base(s) == [f \in Required(s) |-> SampleValue(f, s.decl[f])]

LengthProbes(d) ==
  IF "maxlen" \in DOMAIN d
  THEN {S(Long(d.maxlen)), S(Long(d.maxlen + 1))}
  ELSE {S(Long(1))}

Probes(f, d) ==
  (IF d.nullable THEN {None} ELSE {}) \cup
  CASE f = "email" -> {S(e) : e \in EmailSamples} \cup LengthProbes(d)
    [] f = "transaction_type" -> {S(BUY), S(SELL), S(HOLD)} \cup LengthProbes(d)
    [] f # "email" /\ f # "transaction_type" /\ d.kind = "str" -> LengthProbes(d)
    [] d.kind = "int" -> {N(2)}
    [] d.kind = "bool" -> {B(FALSE)}
    [] d.kind = "decimal" ->
         IF "dp" \in DOMAIN d THEN {D(1, d.dp), D(1, d.dp + 1)} ELSE {D(1, 1)}
    [] d.kind = "datetime" -> {T("t2")}
    [] d.kind = "enum" -> {E(m) : m \in d.enum}
    [] d.kind = "list" -> {L(<<S(<<"a">>)>>)}

Override(g, f, v) == [x \in DOMAIN g \cup {f} |-> IF x = f THEN v ELSE g[x]]

Omit(g, f) == [x \in DOMAIN g \ {f} |-> g[x]]

Step(s, G) ==
  G \cup UNION {{Omit(g, f) : f \in DOMAIN g} : g \in G}
    \cup UNION {UNION {{Override(g, f, v) : v \in Probes(f, s.decl[f])}
                       : f \in DOMAIN s.decl} : g \in G}

RECURSIVE Perturbed(_, _, _)
Perturbed(s, G, k) == IF k = 0 THEN G ELSE Perturbed(s, Step(s, G), k - 1)

ConstructInputs(s) == Perturbed(s, {Base(s)}, MaxPerturb)

(***************************************************************************)
(* State: db, the rows of every table in insertion order (a row's id is    *)
(* its position); last, the last call and its outcome.                     *)
(***************************************************************************)
TableShapes == {s \in Shapes : s.table}

Tables == {s.tablename : s \in TableShapes}

TableShape(t) == CHOOSE s \in TableShapes : s.tablename = t

EmptyDb == [t \in Tables |-> <<>>]

Init ==
  /\ db = EmptyDb
  /\ last = [op |-> "init"]

\* a constructor call about to be made
InitShapes ==
  /\ db = EmptyDb
  /\ \E s \in Shapes : \E g \in ConstructInputs(s) :
       last = [op |-> "call", shape |-> s.name, given |-> g]

ShapeNamed(n) == CHOOSE s \in Shapes : s.name = n

ConstructShape ==
  /\ last.op = "call"
  /\ \E r \in Outcomes(ShapeNamed(last.shape), last.given) :
       last' = [op |-> "construct", shape |-> last.shape, given |-> last.given,
                result |-> r]
  /\ UNCHANGED db

SpecShapes == InitShapes /\ [][ConstructShape]_vars

(***************************************************************************)
(* The storage layer, driven by the declarations: NOT NULL for a field     *)
(* that is not Optional, UNIQUE for unique=True, FOREIGN KEY for           *)
(* foreign_key="table.id".  The primary key is assigned on insert.         *)
(***************************************************************************)
UniqueFields(s) == {f \in DOMAIN s.decl : "unique" \in DOMAIN s.decl[f]}

ForeignKeys(s) == {f \in DOMAIN s.decl : "fk" \in DOMAIN s.decl[f]}

NotNullFields(s) == {f \in DOMAIN s.decl : ~s.decl[f].nullable}

Rows(d, t) == {d[t][i] : i \in 1..Len(d[t])}

Ids(d, t) == {N(i) : i \in 1..Len(d[t])}

RECURSIVE SumLen(_, _)
SumLen(d, Ts) ==
  IF Ts = {} THEN 0
  ELSE LET t == CHOOSE x \in Ts : TRUE IN Len(d[t]) + SumLen(d, Ts \ {t})

TotalRows(d) == SumLen(d, Tables)

NotNullOk(s, row) == \A f \in NotNullFields(s) : row[f] \notin {None, Unset}

UniqueOk(s, row, others) ==
  \A f \in UniqueFields(s) : \A r \in others : r[f] # row[f]

FkOk(d, s, row) == \A f \in ForeignKeys(s) : row[f] \in Ids(d, s.decl[f].fk)

Accepts(d, s, row, others) ==
  /\ NotNullOk(s, row)
  /\ UniqueOk(s, row, others)
  /\ FkOk(d, s, row)

\* the row as stored: the instance with its primary key assigned
NewRow(d, s, g) == [Construct(s, g) EXCEPT !.id = N(Len(d[s.tablename]) + 1)]

Added(d, s, g) == [d EXCEPT ![s.tablename] = Append(@, NewRow(d, s, g))]

\* inserts draw the constrained fields (unique, foreign key) from two values
KeyFields(s) == UniqueFields(s) \cup ForeignKeys(s)

KeyChoices(f, d) ==
  IF "fk" \in DOMAIN d THEN {N(1), N(2)}
  ELSE IF f = "email" THEN {S(GoodEmail), S(OtherEmail)}
  ELSE {S(<<"a">>), S(<<"b">>)}

\* every extension of the arguments G by the fields F, each field f given one
\* of the values V[f]
RECURSIVE Assignments(_, _, _)
Assignments(V, F, G) ==
  IF F = {} THEN G
  ELSE LET f == CHOOSE x \in F : TRUE
       IN Assignments(V, F \ {f},
            UNION {{Override(g, f, v) : v \in V[f]} : g \in G})

EmptyGiven == [f \in {} |-> None]

KeyAssignments(s, F) ==
  Assignments([f \in F |-> KeyChoices(f, s.decl[f])], F, {EmptyGiven})

InsertInputs(s) ==
  {[f \in Required(s) |-> IF f \in KeyFields(s) THEN k[f] ELSE Base(s)[f]] :
     k \in KeyAssignments(s, KeyFields(s))}

InsertInputsOf == [n \in {s.name : s \in TableShapes} |-> InsertInputs(ShapeNamed(n))]

InsertInto(TS) ==
  /\ TotalRows(db) < MaxTotalRows
  /\ \E s \in TS : \E g \in InsertInputsOf[s.name] :
       LET t == s.tablename
           ok == Accepts(db, s, NewRow(db, s, g), Rows(db, t))
       IN /\ db' = IF ok THEN Added(db, s, g) ELSE db
          /\ last' = [op |-> "insert", table |-> t, ok |-> ok]

\* an insert into any table
Insert == InsertInto(TableShapes)

\* an insert into a table that declares a unique column
KeyedShapes == {s \in TableShapes : UniqueFields(s) # {}}

InsertKeyed == InsertInto(KeyedShapes)

SpecStore == Init /\ [][Insert]_vars

(***************************************************************************)
(* Partial update: an *Update instance merged onto the stored row of its   *)
(* entity.  A field of the update that is None is absent.                  *)
(***************************************************************************)
UpdatePairs ==
  {[update |-> UserUpdate, entity |-> User],
   [update |-> StockUpdate, entity |-> Stock],
   [update |-> PortfolioUpdate, entity |-> Portfolio],
   [update |-> PriceAlertUpdate, entity |-> PriceAlert],
   [update |-> WatchListUpdate, entity |-> WatchList]}

Merge(row, upd) ==
  [f \in DOMAIN row |->
     IF f \in DOMAIN upd /\ upd[f] # None THEN upd[f] ELSE row[f]]

Update(u, i, g) ==
  LET t == u.entity.tablename
      row == db[t][i]
      upd == Construct(u.update, g)
      new == Merge(row, upd)
      ok == /\ upd # ValidationError
            /\ Accepts(db, u.entity, new, {db[t][j] : j \in (1..Len(db[t])) \ {i}})
  IN /\ db' = IF ok THEN [db EXCEPT ![t][i] = new] ELSE db
     /\ last' = [op |-> "update", table |-> t, id |-> i, given |-> g, ok |-> ok]

\* updates of the constrained fields, the only ones the storage layer judges
KeyUpdateInputs(u) ==
  UNION {KeyAssignments(u.entity, F) :
           F \in (SUBSET (DOMAIN u.update.decl \cap KeyFields(u.entity))) \ {{}}}

KeyUpdateInputsOf == [n \in {u.entity.name : u \in UpdatePairs} |->
                       KeyUpdateInputs(CHOOSE u \in UpdatePairs : u.entity.name = n)]

UpdateKeys ==
  \E u \in UpdatePairs : \E i \in 1..Len(db[u.entity.tablename]) :
    \E g \in KeyUpdateInputsOf[u.entity.name] : Update(u, i, g)

NextUnique == InsertKeyed \/ UpdateKeys

SpecUnique == Init /\ [][NextUnique]_vars

(***************************************************************************)
(* One stored record under any sequence of updates.                        *)
(***************************************************************************)
UpdateProbes(f, d) ==
  CASE f = "email" -> {S(OtherEmail), S(<<"a", "b">>)}
    [] f = "name" -> {S(<<"n">>), S(Long(d.maxlen + 1))}
    [] f \notin {"email", "name"} /\ d.kind = "str" -> {S(<<"n">>)}
    [] d.kind = "bool" -> {B(FALSE)}
    [] d.kind = "decimal" -> {D(1, d.dp)}
    [] f = "status" -> {E(m) : m \in d.enum}
    [] f # "status" /\ d.kind = "enum" -> {E(AlertType_PRICE_BELOW)}
    [] d.kind = "list" -> {L(<<S(<<"a">>)>>)}

\* every choice of present fields, each with one of its probe values
UpdateInputs(s) ==
  UNION {Assignments([f \in F |-> UpdateProbes(f, s.decl[f])], F, {EmptyGiven}) :
           F \in SUBSET DOMAIN s.decl}

UpdateInputsOf == [n \in {u.update.name : u \in UpdatePairs} |-> UpdateInputs(ShapeNamed(n))]

SeedUser == Added(EmptyDb, User, Base(User))
SeedStock == Added(EmptyDb, Stock, Base(Stock))
SeedPortfolio == Added(SeedUser, Portfolio, Base(Portfolio))
SeedPriceAlert == Added(Added(SeedUser, Stock, Base(Stock)), PriceAlert, Base(PriceAlert))
SeedWatchList == Added(SeedUser, WatchList, Base(WatchList))

\* the record under update: the one row of its table
InitUpdate ==
  \E p \in {<<SeedUser, User>>, <<SeedStock, Stock>>, <<SeedPortfolio, Portfolio>>,
            <<SeedPriceAlert, PriceAlert>>, <<SeedWatchList, WatchList>>} :
    /\ db = p[1]
    /\ last = [op |-> "seed", table |-> p[2].tablename, id |-> 1]

UpdateRecord ==
  /\ last.op \in {"seed", "update"}
  /\ \E u \in UpdatePairs :
       /\ u.entity.tablename = last.table
       /\ \E g \in UpdateInputsOf[u.update.name] : Update(u, last.id, g)

SpecUpdate == InitUpdate /\ [][UpdateRecord]_vars

(***************************************************************************)
(* Properties.                                                             *)
(***************************************************************************)
\* the classes declared with table=False
NonPersistentNames ==
  {"UserCreate", "UserUpdate", "StockCreate", "StockUpdate", "PortfolioCreate",
   "PortfolioUpdate", "TransactionCreate", "PriceAlertCreate", "PriceAlertUpdate",
   "WatchListCreate", "WatchListUpdate", "StockPriceHistoryCreate",
   "PortfolioSummary", "StockQuote"}

Constructed == last.op = "construct"

Rejected == last.result = ValidationError

AlertRows(d) == d["price_alerts"]

\* C1, as claimed: the status of a stored alert only ever changes from ACTIVE
\* to TRIGGERED or from ACTIVE to DISABLED; TRIGGERED and DISABLED are terminal.
C1_StatusLifecycle ==
  [][\A i \in 1..Len(AlertRows(db)) :
       AlertRows(db)[i].status # AlertRows(db')[i].status =>
         /\ AlertRows(db)[i].status = E("active")
         /\ AlertRows(db')[i].status \in {E("triggered"), E("disabled")}]_vars

\* C1, amended: the status of a stored alert is always one of ACTIVE,
\* TRIGGERED, DISABLED, and it changes only by an accepted update of that alert
\* that carries a status, to the status carried; no transition is excluded.
C1_StatusFollowsUpdate ==
  [][\A i \in 1..Len(AlertRows(db)) :
       /\ AlertRows(db')[i].status \in {E("active"), E("triggered"), E("disabled")}
       /\ AlertRows(db)[i].status # AlertRows(db')[i].status =>
            /\ last'.op = "update" /\ last'.table = "price_alerts" /\ last'.id = i
            /\ last'.ok
            /\ "status" \in DOMAIN last'.given
            /\ last'.given.status = AlertRows(db')[i].status]_vars

\* C1 witness: an accepted update carrying a status has set a stored alert to
\* TRIGGERED.
C1_Witness ==
  /\ last.op = "update" /\ last.table = "price_alerts" /\ last.ok
  /\ "status" \in DOMAIN last.given
  /\ AlertRows(db)[1].status = E("triggered")

\* C2: merging an *Update onto the stored record of its entity sets exactly the
\* fields present in the update to the update's values and leaves every other
\* field as stored; an update with every field absent is accepted and changes
\* nothing; a rejected update changes nothing.
C2_PartialUpdate ==
  [][last'.op = "update" =>
       LET t == last'.table
           i == last'.id
           g == last'.given
       IN /\ last'.ok =>
               /\ \A f \in DOMAIN g : f \in DOMAIN db'[t][i] /\ db'[t][i][f] = g[f]
               /\ \A f \in DOMAIN db[t][i] \ DOMAIN g : db'[t][i][f] = db[t][i][f]
               /\ \A x \in Tables \ {t} : db'[x] = db[x]
          /\ ~last'.ok => db' = db
          /\ g = EmptyGiven => last'.ok /\ db' = db]_vars

\* C2 witness: an accepted update that carried two of the fields of its shape
\* and left the others absent.
C2_Witness ==
  /\ last.op = "update" /\ last.ok
  /\ Cardinality(DOMAIN last.given) = 2
  /\ last.table = "users"
  /\ db["users"][1].username = S(<<"n">>)
  /\ db["users"][1].full_name = S(<<"a">>)

\* C3, as claimed: no Transaction or TransactionCreate is constructed with a
\* transaction_type other than "BUY" or "SELL".
C3_TransactionTypeBuyOrSell ==
  (/\ Constructed /\ last.shape \in {"Transaction", "TransactionCreate"}
   /\ ~Rejected
   /\ last.result.transaction_type.t = "str")
    => last.result.transaction_type \in {S(BUY), S(SELL)}

\* C4, as claimed: on User, UserCreate and UserUpdate, an email that does not
\* match the pattern fails validation at construction.
C4_EmailPatternEnforced ==
  (/\ Constructed /\ last.shape \in {"User", "UserCreate", "UserUpdate"}
   /\ "email" \in DOMAIN last.given
   /\ last.given.email # None
   /\ ~Matches(EmailPattern, last.given.email.v))
    => Rejected

\* C5, as claimed: on every class, persistent or not, construction with a
\* field that has no default left out fails validation.
C5_RequiredFieldsEverywhere ==
  (Constructed /\ Missing(ShapeNamed(last.shape), last.given) # {}) => Rejected

\* C5, amended: on every table=False class, construction with a field that has
\* no default left out fails validation.
C5_RequiredFieldsNonPersistent ==
  (/\ Constructed /\ last.shape \in NonPersistentNames
   /\ Missing(ShapeNamed(last.shape), last.given) # {})
    => Rejected

\* C5 witness: a TransactionCreate built without holding_id was rejected.
C5_Witness ==
  /\ Constructed /\ last.shape = "TransactionCreate"
  /\ "holding_id" \notin DOMAIN last.given
  /\ Rejected

NoTwoShare(rows, f) ==
  \A i \in 1..Len(rows) : \A j \in 1..Len(rows) : rows[i][f] = rows[j][f] => i = j

\* C8: no two users share a username or an email, no two stocks share a symbol,
\* no two market indices share a symbol; an insert or update the storage layer
\* rejects leaves every stored row unchanged.
C8_Uniqueness ==
  /\ [](/\ NoTwoShare(db["users"], "username")
        /\ NoTwoShare(db["users"], "email")
        /\ NoTwoShare(db["stocks"], "symbol")
        /\ NoTwoShare(db["market_indices"], "symbol"))
  /\ [][~last'.ok => db' = db]_vars

\* C8 witness: two users are stored and an update of one of them that would
\* have duplicated the other was rejected.
C8_Witness ==
  /\ Len(db["users"]) = 2
  /\ last.op = "update" /\ last.table = "users" /\ ~last.ok

References(d, t, f, target) ==
  \A i \in 1..Len(d[t]) : d[t][i][f] \in {N(k) : k \in 1..Len(d[target])}

\* C9: every foreign-key field of every stored row names an existing row of
\* its target table; a rejected insert adds no row.
C9_ReferentialIntegrity ==
  /\ [](/\ References(db, "portfolios", "user_id", "users")
        /\ References(db, "portfolio_holdings", "portfolio_id", "portfolios")
        /\ References(db, "portfolio_holdings", "stock_id", "stocks")
        /\ References(db, "transactions", "holding_id", "portfolio_holdings")
        /\ References(db, "stock_price_history", "stock_id", "stocks")
        /\ References(db, "price_alerts", "user_id", "users")
        /\ References(db, "price_alerts", "stock_id", "stocks")
        /\ References(db, "watch_lists", "user_id", "users"))
  /\ [][~last'.ok => db' = db]_vars

\* C9 witness: a transaction is stored, at the end of the chain user,
\* portfolio, stock, holding.
C9_Witness ==
  /\ Len(db["transactions"]) = 1
  /\ Len(db["portfolio_holdings"]) = 1
  /\ last.op = "insert" /\ last.ok

TooLong(s, g) ==
  {f \in DOMAIN g : /\ "maxlen" \in DOMAIN s.decl[f]
                    /\ g[f] # None
                    /\ Len(g[f].v) > s.decl[f].maxlen}

\* C10, as claimed: on every class, persistent or not, construction with a
\* string longer than the field's max_length fails validation.
C10_MaxLengthEverywhere ==
  (Constructed /\ TooLong(ShapeNamed(last.shape), last.given) # {}) => Rejected

\* C10, amended: on every table=False class, construction with a string longer
\* than the field's max_length fails validation, and the sample input with one
\* string of exactly max_length characters is accepted.
C10_MaxLengthNonPersistent ==
  (Constructed /\ last.shape \in NonPersistentNames) =>
    LET s == ShapeNamed(last.shape)
    IN /\ TooLong(s, last.given) # {} => Rejected
       /\ \A f \in DOMAIN s.decl :
            ("maxlen" \in DOMAIN s.decl[f]
               /\ last.given = Override(Base(s), f, S(Long(s.decl[f].maxlen))))
              => ~Rejected

\* C10 witness: a UserCreate with a username of 51 characters was rejected.
C10_Witness ==
  /\ Constructed /\ last.shape = "UserCreate"
  /\ "username" \in DOMAIN last.given
  /\ Len(last.given.username.v) = 51
  /\ Rejected
====
